---- MODULE Spec2Model ----
(***************************************************************************)
(* A model of four pieces of cmcstl2:                                      *)
(*   - replace_copy_if  (detail/algorithm/replace_copy_if.hpp, 23-52)      *)
(*   - set_union        (same file, 81-129)                                *)
(*   - temporary_buffer / temporary_vector (detail/temporary_vector.hpp,   *)
(*     25-165)                                                             *)
(*   - the range-access customization points begin/end/rbegin/rend/size/   *)
(*     empty (same file, 187-564)                                          *)
(* Each piece has a specification of its own (SpecRC, SpecSU, SpecTV,      *)
(* SpecRA); the variables of the other pieces stay at their idle values.   *)
(***************************************************************************)
EXTENDS Integers, Sequences, FiniteSets

VARIABLES
  \* replace_copy_if
  rc_rng,        \* the source range, a sequence of elements
  rc_pred,       \* pred_: the set of projected keys the predicate accepts
  rc_proj,       \* proj_: the name of the projection
  rc_new,        \* new_value
  rc_first,      \* first: the source cursor (an index into rc_rng; last = one past)
  rc_last,       \* last
  rc_result,     \* result: the destination cursor (a position of the destination)
  rc_out,        \* the destination, the positions written so far
  rc_reads,      \* history: the source positions dereferenced (*first), in order
  rc_calls,      \* history: the source positions the predicate was applied to
  rc_ret,        \* the returned tagged_pair (in, out)
  rc_pc,         \* "call" | "loop" | "done"
  \* set_union: the two sources, the comparator and the projection (by name),
  \* the cursors, the destination, the returned tagged_tuple (in1, in2, out),
  \* "call" | "loop" | "done", and two histories: one record per merge
  \* iteration, and the number of elements written to the destination
  su_rng1, su_rng2, su_comp, su_proj1, su_proj2,
  su_first1, su_last1, su_first2, su_last2, su_result,
  su_out, su_ret, su_pc, su_log, su_emitted,
  \* temporary_buffer<T>: T as (sizeof, alignof), the requested capacity n,
  \* the address "new T[n]" yields, and the members alloc_, data() (aligned_
  \* in the over-aligned specialization) and size_; addresses count bytes,
  \* 0 is nullptr.
  \* temporary_vector<T>: begin_, end_, alloc_ (byte addresses), two
  \* histories counting per element slot the calls of construct and of
  \* destruct, the number of emplace_back/push_back/operator[] calls made,
  \* the last operation, whether STL2_EXPECT checks ("assert") or only
  \* assumes ("assume") its condition in this build, the argument of the
  \* last operator[] call and the address of the element it returned (0
  \* when it returned none), and the position: "start",
  \* "buffer", "vector", "aborted" (an expectation failed and stopped the
  \* program), "undefined" (undefined behaviour has happened), "destroyed"
  \* (the vector is gone), "released" / "freed" (the buffer is gone too)
  tb_T, tb_n, tb_raw, tb_alloc, tb_data, tb_size,
  tv_begin, tv_end, tv_alloc, tv_ctor, tv_dtor, tv_ops, tv_last, tv_build,
  tv_idx, tv_ref,
  tv_pc,
  \* range access
  ra_R, ra_op, ra_res

rcvars == <<rc_rng, rc_pred, rc_proj, rc_new, rc_first, rc_last, rc_result,
            rc_out, rc_reads, rc_calls, rc_ret, rc_pc>>
suvars == <<su_rng1, su_rng2, su_comp, su_proj1, su_proj2, su_first1, su_last1,
            su_first2, su_last2, su_result, su_out, su_ret, su_pc, su_log,
            su_emitted>>
tvvars == <<tb_T, tb_n, tb_raw, tb_alloc, tb_data, tb_size,
            tv_begin, tv_end, tv_alloc, tv_ctor, tv_dtor, tv_ops, tv_last,
            tv_build, tv_idx, tv_ref, tv_pc>>
ravars == <<ra_R, ra_op, ra_res>>
vars == <<rcvars, suvars, tvvars, ravars>>

(***************************************************************************)
(* Shared helpers                                                          *)
(***************************************************************************)

\* Every sequence over S of length at most n.
SeqsUpTo(S, n) == UNION {[1..k -> S] : k \in 0..n}

\* The value no write has produced: a destination position not yet assigned.
Unwritten == -1

\* "*pos = v" on a destination: position pos (1 = the destination's first
\* position) receives v; positions skipped over stay unwritten.
Store(dest, pos, v) ==
  [j \in 1..(IF pos > Len(dest) THEN pos ELSE Len(dest)) |->
     IF j = pos THEN v ELSE IF j <= Len(dest) THEN dest[j] ELSE Unwritten]

\* The projections the callers pass: identity (the default) and a
\* many-to-one key selector.
Projs == {"identity", "half"}

proj(p, x) == IF p = "identity" THEN x ELSE x \div 2

(***************************************************************************)
(* replace_copy_if                                                         *)
(***************************************************************************)

RCMaxLen == 3
RCMaxVal == 2

RCElems == 0..RCMaxVal

\* pred(proj(*first)) with the predicate given as the set of keys it accepts.
pred(P, k) == k \in P

RCIdle ==
  /\ rc_rng = <<>> /\ rc_pred = {} /\ rc_proj = "identity" /\ rc_new = 0
  /\ rc_first = 0 /\ rc_last = 0 /\ rc_result = 0 /\ rc_out = <<>>
  /\ rc_reads = <<>> /\ rc_calls = <<>>
  /\ rc_ret = [in |-> 0, out |-> 0] /\ rc_pc = "idle"

RCInit ==
  /\ rc_rng \in SeqsUpTo(RCElems, RCMaxLen)
  /\ rc_pred \in SUBSET RCElems
  /\ rc_proj \in Projs
  /\ rc_new \in RCElems
  /\ rc_first = 0 /\ rc_last = 0
  /\ rc_result = 1
  /\ rc_out = <<>>
  /\ rc_reads = <<>> /\ rc_calls = <<>>
  /\ rc_ret = [in |-> 0, out |-> 0]
  /\ rc_pc = "call"

\* The range overload: first = begin(rng), last = end(rng), then the
\* iterator overload.
replace_copy_if_rng ==
  /\ rc_pc = "call"
  /\ rc_first' = 1
  /\ rc_last' = Len(rc_rng) + 1
  /\ rc_pc' = "loop"
  /\ UNCHANGED <<rc_rng, rc_pred, rc_proj, rc_new, rc_result, rc_out,
                 rc_reads, rc_calls, rc_ret>>
  /\ UNCHANGED <<suvars, tvvars, ravars>>

\* A slip in the loop body: the two branches exchanged.
RCBranch_Swapped(P, p, x, v) == IF pred(P, proj(p, x)) THEN x ELSE v

\* The value the loop body assigns to *result.
RCBranch(P, p, x, v) == IF pred(P, proj(p, x)) THEN v ELSE x

\* The dereferences of *first one iteration makes: one for the predicate,
\* and one more for the copy when the predicate fails.
RCDerefs(P, p, x, i) == IF pred(P, proj(p, x)) THEN <<i>> ELSE <<i, i>>

\* A slip in the loop header: "++result" left out when the destination is
\* at an even position.
RCNextResult_Stuck(r) == IF r % 2 = 0 THEN r ELSE r + 1

\* The destination cursor after one iteration (++result).
RCNextResult(r) == r + 1

\* One iteration of "for (; first != last; ++first, ++result)".
replace_copy_if_loop ==
  /\ rc_pc = "loop"
  /\ rc_first # rc_last
  /\ rc_out' = Store(rc_out, rc_result,
                     RCBranch(rc_pred, rc_proj, rc_rng[rc_first], rc_new))
  /\ rc_reads' = rc_reads \o RCDerefs(rc_pred, rc_proj, rc_rng[rc_first], rc_first)
  /\ rc_calls' = Append(rc_calls, rc_first)
  /\ rc_first' = rc_first + 1
  /\ rc_result' = RCNextResult(rc_result)
  /\ UNCHANGED <<rc_rng, rc_pred, rc_proj, rc_new, rc_last, rc_ret, rc_pc>>
  /\ UNCHANGED <<suvars, tvvars, ravars>>

\* "return {first, result}" once first == last.
replace_copy_if_return ==
  /\ rc_pc = "loop"
  /\ rc_first = rc_last
  /\ rc_ret' = [in |-> rc_first, out |-> rc_result]
  /\ rc_pc' = "done"
  /\ UNCHANGED <<rc_rng, rc_pred, rc_proj, rc_new, rc_first, rc_last,
                 rc_result, rc_out, rc_reads, rc_calls>>
  /\ UNCHANGED <<suvars, tvvars, ravars>>

RCNext ==
  \/ replace_copy_if_rng
  \/ replace_copy_if_loop
  \/ replace_copy_if_return

(***************************************************************************)
(* set_union                                                               *)
(***************************************************************************)

SUMaxLen == 3
SUMaxVal == 4

SUElems == 1..SUMaxVal

\* The comparators the callers pass: less<> (the default) and greater<>.
Comps == {"less", "greater"}

comp(c, a, b) == IF c = "less" THEN a < b ELSE a > b

\* seq is sorted under comparator c over keys proj(p, .): no element
\* precedes an earlier one.
Sorted(seq, c, p) ==
  \A i, j \in DOMAIN seq : i < j => ~comp(c, proj(p, seq[j]), proj(p, seq[i]))

\* The two worked examples of the documentation (comparator "<").
SUTestVectors == {<< <<1, 3, 3, 5>>, <<2, 3, 4>> >>, << <<>>, <<1, 2, 3>> >>}

\* __stl2::copy(first, last, result): the elements of src from first up to
\* last go to the destination from result on; returns (in, out).
copy(src, first, last, dest, result) ==
  LET n == last - first
      top == IF result + n - 1 > Len(dest) THEN result + n - 1 ELSE Len(dest)
  IN [in |-> last,
      out |-> result + n,
      dest |-> [j \in 1..top |->
                  IF j >= result /\ j < result + n THEN src[first + (j - result)]
                  ELSE IF j <= Len(dest) THEN dest[j] ELSE Unwritten]]

SUIdle ==
  /\ su_rng1 = <<>> /\ su_rng2 = <<>> /\ su_comp = "less"
  /\ su_proj1 = "identity" /\ su_proj2 = "identity"
  /\ su_first1 = 0 /\ su_last1 = 0 /\ su_first2 = 0 /\ su_last2 = 0
  /\ su_result = 0 /\ su_out = <<>>
  /\ su_ret = [in1 |-> 0, in2 |-> 0, out |-> 0]
  /\ su_pc = "idle" /\ su_log = <<>> /\ su_emitted = 0

SUInit ==
  /\ \/ /\ su_comp \in Comps
        /\ su_proj1 \in Projs
        /\ su_rng1 \in SeqsUpTo(SUElems, SUMaxLen)
        /\ Sorted(su_rng1, su_comp, su_proj1)
        /\ su_proj2 \in Projs
        /\ su_rng2 \in SeqsUpTo(SUElems, SUMaxLen)
     \/ /\ su_comp = "less"
        /\ su_proj1 = "identity" /\ su_proj2 = "identity"
        /\ \E tv \in SUTestVectors : su_rng1 = tv[1] /\ su_rng2 = tv[2]
  \* the precondition: each source is sorted
  /\ Sorted(su_rng1, su_comp, su_proj1)
  /\ Sorted(su_rng2, su_comp, su_proj2)
  /\ su_first1 = 0 /\ su_last1 = 0 /\ su_first2 = 0 /\ su_last2 = 0
  /\ su_result = 1
  /\ su_out = <<>>
  /\ su_ret = [in1 |-> 0, in2 |-> 0, out |-> 0]
  /\ su_pc = "call" /\ su_log = <<>> /\ su_emitted = 0

\* The range overload: begin/end of both ranges, then the iterator overload.
set_union_rng ==
  /\ su_pc = "call"
  /\ su_first1' = 1 /\ su_last1' = Len(su_rng1) + 1
  /\ su_first2' = 1 /\ su_last2' = Len(su_rng2) + 1
  /\ su_pc' = "loop"
  /\ UNCHANGED <<su_rng1, su_rng2, su_comp, su_proj1, su_proj2, su_result, su_out,
                 su_ret, su_log, su_emitted>>
  /\ UNCHANGED <<rcvars, tvvars, ravars>>

\* "if (first1 == last1)": copy the rest of source 2 and return.
set_union_exit1 ==
  /\ su_pc = "loop"
  /\ su_first1 = su_last1
  /\ LET res == copy(su_rng2, su_first2, su_last2, su_out, su_result)
     IN /\ su_out' = res.dest
        /\ su_ret' = [in1 |-> su_first1, in2 |-> res.in, out |-> res.out]
        /\ su_emitted' = su_emitted + (su_last2 - su_first2)
  /\ su_pc' = "done"
  /\ UNCHANGED <<su_rng1, su_rng2, su_comp, su_proj1, su_proj2, su_first1, su_last1,
                 su_first2, su_last2, su_result, su_log>>
  /\ UNCHANGED <<rcvars, tvvars, ravars>>

\* A slip on the second exit: the moved-from first1 returned instead of
\* res.in().
set_union_exit2_stale ==
  /\ su_pc = "loop"
  /\ su_first1 # su_last1
  /\ su_first2 = su_last2
  /\ LET res == copy(su_rng1, su_first1, su_last1, su_out, su_result)
     IN /\ su_out' = res.dest
        /\ su_ret' = [in1 |-> su_first1, in2 |-> su_first2, out |-> res.out]
        /\ su_emitted' = su_emitted + (su_last1 - su_first1)
  /\ su_pc' = "done"
  /\ UNCHANGED <<su_rng1, su_rng2, su_comp, su_proj1, su_proj2, su_first1, su_last1,
                 su_first2, su_last2, su_result, su_log>>
  /\ UNCHANGED <<rcvars, tvvars, ravars>>

\* "if (first2 == last2)": copy the rest of source 1 and return.
set_union_exit2 ==
  /\ su_pc = "loop"
  /\ su_first1 # su_last1
  /\ su_first2 = su_last2
  /\ LET res == copy(su_rng1, su_first1, su_last1, su_out, su_result)
     IN /\ su_out' = res.dest
        /\ su_ret' = [in1 |-> res.in, in2 |-> su_first2, out |-> res.out]
        /\ su_emitted' = su_emitted + (su_last1 - su_first1)
  /\ su_pc' = "done"
  /\ UNCHANGED <<su_rng1, su_rng2, su_comp, su_proj1, su_proj2, su_first1, su_last1,
                 su_first2, su_last2, su_result, su_log>>
  /\ UNCHANGED <<rcvars, tvvars, ravars>>

\* A slip in the merge step: source 1 not advanced past an equivalent
\* element.
SUMerge_NoTieAdvance(c, p1, p2, e1, e2) ==
  IF comp(c, proj(p1, e1), proj(p2, e2))
  THEN [emit |-> e1, from |-> 1, adv1 |-> TRUE, adv2 |-> FALSE]
  ELSE [emit |-> e2, from |-> 2, adv1 |-> FALSE, adv2 |-> TRUE]

\* A slip in the merge step: source 1's element assigned to *result on the
\* branch that consumes source 2.
SUMerge_EmitFirst(c, p1, p2, e1, e2) ==
  IF comp(c, proj(p1, e1), proj(p2, e2))
  THEN [emit |-> e1, from |-> 1, adv1 |-> TRUE, adv2 |-> FALSE]
  ELSE [emit |-> e1, from |-> 1,
        adv1 |-> ~comp(c, proj(p2, e2), proj(p1, e1)), adv2 |-> TRUE]

\* The merge step on the current elements e1 = *first1, e2 = *first2: the
\* element assigned to *result and which cursors are incremented.
SUMerge(c, p1, p2, e1, e2) ==
  IF comp(c, proj(p1, e1), proj(p2, e2))
  THEN [emit |-> e1, from |-> 1, adv1 |-> TRUE, adv2 |-> FALSE]
  ELSE [emit |-> e2, from |-> 2,
        adv1 |-> ~comp(c, proj(p2, e2), proj(p1, e1)), adv2 |-> TRUE]

\* One iteration with both sources non-exhausted, "++result" included.
set_union_loop ==
  /\ su_pc = "loop"
  /\ su_first1 # su_last1
  /\ su_first2 # su_last2
  /\ LET e1 == su_rng1[su_first1]
         e2 == su_rng2[su_first2]
         m == SUMerge(su_comp, su_proj1, su_proj2, e1, e2)
     IN /\ su_out' = Store(su_out, su_result, m.emit)
        /\ su_first1' = IF m.adv1 THEN su_first1 + 1 ELSE su_first1
        /\ su_first2' = IF m.adv2 THEN su_first2 + 1 ELSE su_first2
        /\ su_log' = Append(su_log, [e1 |-> e1, e2 |-> e2, emit |-> m.emit,
                                     from |-> m.from,
                                     adv1 |-> m.adv1, adv2 |-> m.adv2])
  /\ su_result' = su_result + 1
  /\ su_emitted' = su_emitted + 1
  /\ UNCHANGED <<su_rng1, su_rng2, su_comp, su_proj1, su_proj2, su_last1, su_last2,
                 su_ret, su_pc>>
  /\ UNCHANGED <<rcvars, tvvars, ravars>>

SUNext ==
  \/ set_union_rng
  \/ set_union_exit1
  \/ set_union_exit2
  \/ set_union_loop

(***************************************************************************)
(* temporary_buffer and temporary_vector                                   *)
(***************************************************************************)

TBMaxN == 9
TBMaxBase == 8
TVMaxOps == 4
TVMaxIdx == 3

\* alignof(std::max_align_t), scaled down.
alignof_max_align_t == 2

\* The element types: (sizeof, alignof), alignof a power of two dividing
\* sizeof.  The last three are over-aligned.
TBTypes == {[size |-> 1, align |-> 1], [size |-> 2, align |-> 2],
            [size |-> 4, align |-> 4], [size |-> 8, align |-> 4],
            [size |-> 8, align |-> 8]}

\* "requires (alignof(T) > alignof(std::max_align_t))": which class
\* template is used.
OverAligned(T) == T.align > alignof_max_align_t

\* The addresses an allocation can start at: aligned for max_align_t, not
\* necessarily for an over-aligned T.
TBBases == {a \in 1..TBMaxBase : a % alignof_max_align_t = 0}

\* std::align(alignment, size, ptr, space): the first aligned address at or
\* after ptr when size bytes fit in the space left there (space shrinks by
\* the adjustment), else nullptr with ptr and space untouched.
std_align(alignment, size, ptr, space) ==
  LET aligned == ((ptr + alignment - 1) \div alignment) * alignment
      adj == aligned - ptr
  IN IF space < size \/ adj > space - size
     THEN [p |-> 0, space |-> space]
     ELSE [p |-> aligned, space |-> space - adj]

\* The bytes "new T[n]" allocates at the address it yields.
RawBytes(T, n) == n * T.size

\* The primary template's private constructor from the pair buf.
PrimaryBuffer(first, second) ==
  [alloc |-> first, data |-> first, size |-> second]

\* A slip in the over-aligned constructor: "if (aligned_)" left out.
OverAlignedBuffer_NoNullCheck(T, first, second) ==
  IF second > 0 /\ second >= T.size
  THEN LET a == std_align(T.align, T.size, first, second)
       IN [alloc |-> first, data |-> a.p, size |-> a.space \div T.size]
  ELSE [alloc |-> first, data |-> 0, size |-> 0]

\* The over-aligned specialization's private constructor from the pair buf:
\* buf.second is taken as the number of bytes at buf.first.
OverAlignedBuffer(T, first, second) ==
  IF second > 0 /\ second >= T.size
  THEN LET a == std_align(T.align, T.size, first, second)
       IN IF a.p # 0
          THEN [alloc |-> first, data |-> a.p, size |-> a.space \div T.size]
          ELSE [alloc |-> first, data |-> 0, size |-> 0]
  ELSE [alloc |-> first, data |-> 0, size |-> 0]

\* STL2_EXPECT(c) is an assertion in an instrumented build and an
\* assumption (undefined behaviour when c is false) otherwise.
TVBuilds == {"assert", "assume"}

\* The element slots of the vector: the addresses begin_, begin_ + 1, ...
\* up to alloc_.
TVSlots(b, a, T) == {x \in b..(a - 1) : (x - b) % T.size = 0}

\* destroy(): destruct is called on every element of [begin_, end_).
destroy(d, b, e) == [x \in DOMAIN d |-> IF b <= x /\ x < e THEN d[x] + 1 ELSE d[x]]

TVIdle ==
  /\ tb_T = [size |-> 1, align |-> 1] /\ tb_n = 0 /\ tb_raw = 0 /\ tb_alloc = 0
  /\ tb_data = 0 /\ tb_size = 0
  /\ tv_begin = 0 /\ tv_end = 0 /\ tv_alloc = 0
  /\ tv_ctor = <<>> /\ tv_dtor = <<>> /\ tv_ops = 0 /\ tv_last = "none"
  /\ tv_build = "assert" /\ tv_idx = 0 /\ tv_ref = 0 /\ tv_pc = "idle"

TVInit ==
  /\ tb_T \in TBTypes
  /\ tb_n \in 0..TBMaxN
  /\ tb_raw \in TBBases
  /\ tb_alloc = 0 /\ tb_data = 0 /\ tb_size = 0
  /\ tv_begin = 0 /\ tv_end = 0 /\ tv_alloc = 0
  /\ tv_ctor = <<>> /\ tv_dtor = <<>> /\ tv_ops = 0 /\ tv_last = "none"
  /\ tv_build \in TVBuilds
  /\ tv_idx = 0 /\ tv_ref = 0
  /\ tv_pc = "start"

\* temporary_buffer(n): "new T[n]" yields tb_raw, and the pair {tb_raw, n}
\* goes to the private constructor of the class template in use.
temporary_buffer_n ==
  /\ tv_pc = "start"
  /\ LET b == IF OverAligned(tb_T) THEN OverAlignedBuffer(tb_T, tb_raw, tb_n)
              ELSE PrimaryBuffer(tb_raw, tb_n)
     IN /\ tb_alloc' = b.alloc
        /\ tb_data' = b.data
        /\ tb_size' = b.size
  /\ tv_pc' = "buffer"
  /\ tv_last' = "temporary_buffer(n)"
  /\ UNCHANGED <<tv_idx, tv_ref, tv_build, tb_T, tb_n, tb_raw, tv_begin, tv_end, tv_alloc, tv_ctor,
                 tv_dtor, tv_ops>>
  /\ UNCHANGED <<rcvars, suvars, ravars>>

\* temporary_buffer(): no allocation, data() == nullptr, size() == 0.
temporary_buffer_default ==
  /\ tv_pc = "start"
  /\ tb_alloc' = 0 /\ tb_data' = 0 /\ tb_size' = 0
  /\ tv_pc' = "buffer"
  /\ tv_last' = "temporary_buffer()"
  /\ UNCHANGED <<tv_idx, tv_ref, tv_build, tb_T, tb_n, tb_raw, tv_begin, tv_end, tv_alloc, tv_ctor,
                 tv_dtor, tv_ops>>
  /\ UNCHANGED <<rcvars, suvars, ravars>>

\* temporary_vector(buf): begin_ = buf.data(), end_ = begin_,
\* alloc_ = begin_ + buf.size().
temporary_vector_buf ==
  /\ tv_pc = "buffer"
  /\ tv_begin' = tb_data
  /\ tv_end' = tb_data
  /\ tv_alloc' = tb_data + tb_size * tb_T.size
  /\ tv_ctor' = [x \in TVSlots(tb_data, tb_data + tb_size * tb_T.size, tb_T) |-> 0]
  /\ tv_dtor' = [x \in TVSlots(tb_data, tb_data + tb_size * tb_T.size, tb_T) |-> 0]
  /\ tv_pc' = "vector"
  /\ tv_last' = "temporary_vector(buf)"
  /\ UNCHANGED <<tv_idx, tv_ref, tv_build, tb_T, tb_n, tb_raw, tb_alloc, tb_data, tb_size, tv_ops>>
  /\ UNCHANGED <<rcvars, suvars, ravars>>

\* temporary_vector(): all three pointers null.
temporary_vector_default ==
  /\ tv_pc = "start"
  /\ tv_begin' = 0 /\ tv_end' = 0 /\ tv_alloc' = 0
  /\ tv_ctor' = <<>> /\ tv_dtor' = <<>>
  /\ tv_pc' = "vector"
  /\ tv_last' = "temporary_vector()"
  /\ UNCHANGED <<tv_idx, tv_ref, tv_build, tb_T, tb_n, tb_raw, tb_alloc, tb_data, tb_size, tv_ops>>
  /\ UNCHANGED <<rcvars, suvars, ravars>>

\* A slip in emplace_back: the expectation written after the construction
\* and the increment.
EmplaceBack_CheckLast(op) ==
  /\ tv_pc = "vector"
  /\ tv_ops < TVMaxOps
  /\ tv_ops' = tv_ops + 1
  /\ tv_last' = op
  /\ tv_ctor' = [x \in DOMAIN tv_ctor |->
                   IF x = tv_end THEN tv_ctor[x] + 1 ELSE tv_ctor[x]]
  /\ tv_end' = tv_end + tb_T.size
  /\ IF tv_end < tv_alloc
     THEN UNCHANGED <<tv_pc>>
     ELSE tv_pc' = (IF tv_build = "assert" THEN "aborted" ELSE "undefined")
  /\ UNCHANGED <<tv_idx, tv_ref, tv_build, tb_T, tb_n, tb_raw, tb_alloc, tb_data,
                 tb_size, tv_begin, tv_alloc, tv_dtor>>
  /\ UNCHANGED <<rcvars, suvars, ravars>>

\* emplace_back(args...): STL2_EXPECT(end_ < alloc_), then construct(*end_)
\* and ++end_.  A call with end_ == alloc_ stops the program in a build
\* that asserts; in a build that assumes, the behaviour is undefined: the
\* program may stop, or go on to construct past the capacity and advance
\* end_.  op names the member function the caller used.
EmplaceBack(op) ==
  /\ tv_pc = "vector"
  /\ tv_ops < TVMaxOps
  /\ tv_ops' = tv_ops + 1
  /\ tv_last' = op
  /\ IF tv_end < tv_alloc
     THEN /\ tv_ctor' = [tv_ctor EXCEPT ![tv_end] = @ + 1]
          /\ tv_end' = tv_end + tb_T.size
          /\ UNCHANGED <<tv_pc>>
     ELSE \/ /\ tv_pc' = (IF tv_build = "assert" THEN "aborted" ELSE "undefined")
             /\ UNCHANGED <<tv_ctor, tv_end>>
          \/ /\ tv_build = "assume"
             /\ tv_pc' = "undefined"
             /\ tv_end' = tv_end + tb_T.size
             /\ UNCHANGED <<tv_ctor>>
  /\ UNCHANGED <<tv_idx, tv_ref, tv_build, tb_T, tb_n, tb_raw, tb_alloc, tb_data, tb_size, tv_begin,
                 tv_alloc, tv_dtor>>
  /\ UNCHANGED <<rcvars, suvars, ravars>>

emplace_back == EmplaceBack("emplace_back")

\* The indexes the callers pass to operator[].
TVIndexes == (0 - 1)..TVMaxIdx

\* operator[](i): STL2_EXPECT(0 <= i), STL2_EXPECT(i < end_ - begin_), then
\* a reference to begin_[i].  A call with i out of range stops the program
\* in a build that asserts; in a build that assumes, the behaviour is
\* undefined: the program may stop, or return a reference outside
\* [begin_, end_).
operator_subscript ==
  /\ tv_pc = "vector"
  /\ tv_ops < TVMaxOps
  /\ tv_ops' = tv_ops + 1
  /\ tv_last' = "operator[]"
  /\ \E i \in TVIndexes :
       /\ tv_idx' = i
       /\ IF 0 <= i /\ i < (tv_end - tv_begin) \div tb_T.size
          THEN /\ tv_ref' = tv_begin + i * tb_T.size
               /\ UNCHANGED <<tv_pc>>
          ELSE \/ /\ tv_pc' = (IF tv_build = "assert" THEN "aborted"
                               ELSE "undefined")
                  /\ tv_ref' = 0
               \/ /\ tv_build = "assume"
                  /\ tv_pc' = "undefined"
                  /\ tv_ref' = tv_begin + i * tb_T.size
  /\ UNCHANGED <<tv_build, tb_T, tb_n, tb_raw, tb_alloc, tb_data, tb_size,
                 tv_begin, tv_end, tv_alloc, tv_ctor, tv_dtor>>
  /\ UNCHANGED <<rcvars, suvars, ravars>>

\* push_back(const T&) and push_back(T&&): emplace_back(t).
push_back == EmplaceBack("push_back")

\* A slip in clear(): the assignment written the other way round.
clear_BeginMoved ==
  /\ tv_pc = "vector"
  /\ tv_dtor' = destroy(tv_dtor, tv_begin, tv_end)
  /\ tv_begin' = tv_end
  /\ tv_last' = "clear"
  /\ UNCHANGED <<tv_idx, tv_ref, tv_build, tb_T, tb_n, tb_raw, tb_alloc, tb_data, tb_size, tv_end,
                 tv_alloc, tv_ctor, tv_ops, tv_pc>>
  /\ UNCHANGED <<rcvars, suvars, ravars>>

\* A slip in clear(): "end_ = begin_" left out.
clear_NoReset ==
  /\ tv_pc = "vector"
  /\ tv_dtor' = destroy(tv_dtor, tv_begin, tv_end)
  /\ tv_last' = "clear"
  /\ UNCHANGED <<tv_idx, tv_ref, tv_build, tb_T, tb_n, tb_raw, tb_alloc, tb_data, tb_size, tv_begin,
                 tv_end, tv_alloc, tv_ctor, tv_ops, tv_pc>>
  /\ UNCHANGED <<rcvars, suvars, ravars>>

\* clear(): destroy(), then end_ = begin_.
clear ==
  /\ tv_pc = "vector"
  /\ tv_dtor' = destroy(tv_dtor, tv_begin, tv_end)
  /\ tv_end' = tv_begin
  /\ tv_last' = "clear"
  /\ UNCHANGED <<tv_idx, tv_ref, tv_build, tb_T, tb_n, tb_raw, tb_alloc, tb_data, tb_size, tv_begin,
                 tv_alloc, tv_ctor, tv_ops, tv_pc>>
  /\ UNCHANGED <<rcvars, suvars, ravars>>

\* ~temporary_vector(): destroy(); the members keep their values.
temporary_vector_dtor ==
  /\ tv_pc = "vector"
  /\ tv_dtor' = destroy(tv_dtor, tv_begin, tv_end)
  /\ tv_pc' = "destroyed"
  /\ tv_last' = "~temporary_vector"
  /\ UNCHANGED <<tv_idx, tv_ref, tv_build, tb_T, tb_n, tb_raw, tb_alloc, tb_data, tb_size, tv_begin,
                 tv_end, tv_alloc, tv_ctor, tv_ops>>
  /\ UNCHANGED <<rcvars, suvars, ravars>>

\* ~temporary_buffer(): the allocation goes back; the vector, declared
\* after the buffer it borrows, is gone by then.
temporary_buffer_dtor ==
  /\ tv_pc \in {"buffer", "destroyed"}
  /\ tv_pc' = (IF tv_pc = "destroyed" THEN "released" ELSE "freed")
  /\ tv_last' = "~temporary_buffer"
  /\ UNCHANGED <<tv_idx, tv_ref, tv_build, tb_T, tb_n, tb_raw, tb_alloc, tb_data, tb_size,
                 tv_begin, tv_end, tv_alloc, tv_ctor, tv_dtor, tv_ops>>
  /\ UNCHANGED <<rcvars, suvars, ravars>>

\* capacity() and size(): differences of T*, so counted in elements.
capacity == (tv_alloc - tv_begin) \div tb_T.size
size == (tv_end - tv_begin) \div tb_T.size

TVNext ==
  \/ temporary_buffer_n
  \/ temporary_buffer_default
  \/ temporary_vector_buf
  \/ temporary_vector_default
  \/ emplace_back
  \/ push_back
  \/ operator_subscript
  \/ clear
  \/ temporary_vector_dtor
  \/ temporary_buffer_dtor

(***************************************************************************)
(* Range access: begin, end, rbegin, rend, size, empty                     *)
(*                                                                         *)
(* A range type is described by what type-checks for an lvalue of it.  A   *)
(* call yields the name of the alternative whose result it returns:        *)
(* "member", "adl" (a free function found through the range's own type),   *)
(* "array", "list", "synth" (a reverse cursor made from end/begin), or     *)
(* "none" (no overload is viable: the call is rejected at build time) or   *)
(* "error" (an overload is selected and its static_assert fails).          *)
(*                                                                         *)
(* impl overloads are ranked by ext::priority_tag<N>: the call passes      *)
(* ext::max_priority_tag, and of the viable overloads the one with the     *)
(* highest N is the better match (the source's comments: "Use member" at   *)
(* tag 0 against "Prefer ADL" at tag 1; "Default to                        *)
(* make_reverse_iterator" at tag 0 against "Prefer member" at tag 1).      *)
(***************************************************************************)

RAKinds == {"class", "array", "list"}

RAFields ==
  [kind : RAKinds,
   mbegin : BOOLEAN,   \* r.begin() is an Iterator
   fbegin : BOOLEAN,   \* begin(r) is found by ADL and is an Iterator
   mend : BOOLEAN,     \* r.end() is valid
   fend : BOOLEAN,     \* end(r) is found by ADL
   endS : BOOLEAN,     \* the selected end's type is a Sentinel for begin's
   same : BOOLEAN,     \* Same<decltype(begin(r)), decltype(end(r))>
   rev : BOOLEAN,      \* make_reverse_iterator of the cursor is valid
   mrbegin : BOOLEAN,  \* r.rbegin() is an Iterator
   mrend : BOOLEAN,    \* r.rend() is valid
   mrendS : BOOLEAN,   \* r.rend()'s type is a Sentinel for rbegin's
   msize : BOOLEAN,    \* r.size() is valid
   fsize : BOOLEAN,    \* a non-template size(const R&) is found by ADL
   diff : BOOLEAN,     \* end(r) - begin(r) is valid
   mempty : BOOLEAN]   \* r.empty() converts to bool

\* __begin::impl under a ranking that puts the member first.
begin_impl_MemberFirst(R) ==
  IF R.mbegin THEN "member" ELSE IF R.fbegin THEN "adl" ELSE "none"

\* __begin::impl(r, max_priority_tag): ADL begin at tag 1, member at tag 0.
begin_impl(R) ==
  IF R.fbegin THEN "adl" ELSE IF R.mbegin THEN "member" ELSE "none"

\* __begin::fn::operator(): the array overload is the more specialized
\* template; otherwise impl.
begin_fn(R) == IF R.kind = "array" THEN "array" ELSE begin_impl(R)

\* __end::impl(r, max_priority_tag): ADL end at tag 1, member at tag 0; the
\* constraint asks only that the call is valid, and the body asserts that
\* the result is a Sentinel for begin's.
end_impl(R) ==
  IF R.fend THEN (IF R.endS THEN "adl" ELSE "error")
  ELSE IF R.mend THEN (IF R.endS THEN "member" ELSE "error")
  ELSE "none"

\* __end::fn::operator().
end_fn(R) == IF R.kind = "array" THEN "array" ELSE end_impl(R)

\* The constraint of the tag-0 overloads of __rbegin and __rend.
RASynth(R) ==
  /\ begin_fn(R) # "none" /\ end_fn(R) \notin {"none", "error"}
  /\ R.same /\ R.rev

\* __rbegin::impl under a ranking that puts the synthesized cursor first.
rbegin_impl_SynthFirst(R) ==
  IF RASynth(R) THEN "synth" ELSE IF R.mrbegin THEN "member" ELSE "none"

\* __rbegin::impl(r, max_priority_tag): member rbegin at tag 1,
\* make_reverse_iterator(end(r)) at tag 0.
rbegin_impl(R) ==
  IF R.mrbegin THEN "member" ELSE IF RASynth(R) THEN "synth" ELSE "none"

\* __rbegin::fn::operator().
rbegin_fn(R) == rbegin_impl(R)

\* __rend::impl(r, max_priority_tag): member rend at tag 1 (its body
\* asserts a Sentinel for rbegin's type), make_reverse_iterator(begin(r))
\* at tag 0.
rend_impl(R) ==
  IF R.mrend THEN (IF R.mrendS THEN "member" ELSE "error")
  ELSE IF RASynth(R) THEN "synth" ELSE "none"

\* __rend::fn::operator().
rend_fn(R) == rend_impl(R)

\* __size::fn under the rule "a member, else end - begin".
size_fn_Difference(R) ==
  IF R.kind = "array" THEN "array"
  ELSE IF R.fsize THEN "adl"
  ELSE IF R.msize THEN "member"
  ELSE IF R.diff THEN "difference" ELSE "none"

\* __size::fn::operator(): the unqualified call size(r) sees the two
\* __size::size overloads (array length N, member r.size()) and whatever
\* ADL finds; a non-template function found by ADL beats the member
\* template.
size_fn(R) ==
  IF R.kind = "array" THEN "array"
  ELSE IF R.fsize THEN "adl"
  ELSE IF R.msize THEN "member"
  ELSE "none"

\* __empty::fn::operator(): N == 0 for an array, il.size() == 0 for an
\* initializer_list, else __empty::impl (the member).
empty_fn(R) ==
  IF R.kind = "array" THEN "array"
  ELSE IF R.kind = "list" THEN "list"
  ELSE IF R.mempty THEN "member"
  ELSE "none"

\* The range types: an array has no members, its cursors are pointers; an
\* initializer_list has member and std:: begin/end and a member size; the
\* facts about the types of begin and end need both to resolve.
RARanges ==
  {R \in RAFields :
     /\ R.kind = "array" =>
          /\ ~R.mbegin /\ ~R.mend /\ ~R.mrbegin /\ ~R.mrend /\ ~R.mrendS
          /\ ~R.msize /\ ~R.fsize /\ ~R.mempty
          /\ R.fbegin = R.fend
          /\ R.endS /\ R.same /\ R.rev /\ R.diff
     /\ R.kind = "list" =>
          /\ R.mbegin /\ R.mend /\ R.fbegin /\ R.fend /\ R.endS
          /\ R.same /\ R.rev /\ R.diff /\ R.msize
          /\ ~R.fsize /\ ~R.mempty /\ ~R.mrbegin /\ ~R.mrend /\ ~R.mrendS
     /\ R.kind = "class" =>
          /\ R.endS => (begin_impl(R) # "none" /\ (R.mend \/ R.fend))
          /\ (R.same \/ R.diff) => (begin_impl(R) # "none" /\ R.endS)
          /\ R.rev => begin_impl(R) # "none"
          /\ R.mrendS => (R.mrend /\ rbegin_impl(R) # "none")}

RAIdle == ra_R = "none" /\ ra_op = "none" /\ ra_res = "none"

RAInit == ra_R \in RARanges /\ ra_op = "none" /\ ra_res = "none"

\* One call of a customization point object on the range; a pure query.
RACall(op, res) ==
  /\ ra_op' = op
  /\ ra_res' = res
  /\ UNCHANGED ra_R
  /\ UNCHANGED <<rcvars, suvars, tvvars>>

call_begin == RACall("begin", begin_fn(ra_R))
call_end == RACall("end", end_fn(ra_R))
call_rbegin == RACall("rbegin", rbegin_fn(ra_R))
call_rend == RACall("rend", rend_fn(ra_R))
call_size == RACall("size", size_fn(ra_R))
call_empty == RACall("empty", empty_fn(ra_R))

RANext ==
  \/ call_begin
  \/ call_end
  \/ call_rbegin
  \/ call_rend
  \/ call_size
  \/ call_empty

(***************************************************************************)
(* Specifications                                                          *)
(***************************************************************************)

InitRC == RCInit /\ SUIdle /\ TVIdle /\ RAIdle
NextRC == RCNext
SpecRC == InitRC /\ [][NextRC]_vars

InitSU == SUInit /\ RCIdle /\ TVIdle /\ RAIdle
NextSU == SUNext
SpecSU == InitSU /\ [][NextSU]_vars

InitTV == TVInit /\ RCIdle /\ SUIdle /\ RAIdle
NextTV == TVNext
SpecTV == InitTV /\ [][NextTV]_vars

InitRA == RAInit /\ RCIdle /\ SUIdle /\ TVIdle
NextRA == RANext
SpecRA == InitRA /\ [][NextRA]_vars

(***************************************************************************)
(* Claims about replace_copy_if (checked under SpecRC)                     *)
(***************************************************************************)

\* What the loop body stores for source position i.
RCExpected(i) ==
  IF pred(rc_pred, proj(rc_proj, rc_rng[i])) THEN rc_new ELSE rc_rng[i]

\* C1 as stated: the destination receives length(S) elements, and for every
\* index i, output[i] == V if and only if P(projection(S[i])) holds, and
\* otherwise output[i] == S[i].
C1_AsStated ==
  rc_pc = "done" =>
    /\ Len(rc_out) = Len(rc_rng)
    /\ \A i \in DOMAIN rc_rng :
         /\ (rc_out[i] = rc_new) <=> pred(rc_pred, proj(rc_proj, rc_rng[i]))
         /\ ~pred(rc_pred, proj(rc_proj, rc_rng[i])) => rc_out[i] = rc_rng[i]

\* C1 (amended): the destination receives exactly length(S) elements, in
\* order; output[i] == V if P(projection(S[i])) holds and output[i] == S[i]
\* otherwise, so output[i] == V exactly when P(projection(S[i])) holds or
\* S[i] is itself V.
C1_FilterCopy ==
  rc_pc = "done" =>
    /\ Len(rc_out) = Len(rc_rng)
    /\ \A i \in DOMAIN rc_rng :
         /\ rc_out[i] = RCExpected(i)
         /\ (rc_out[i] = rc_new) <=>
              (pred(rc_pred, proj(rc_proj, rc_rng[i])) \/ rc_rng[i] = rc_new)

\* A finished call that replaced one element and copied another, the copied
\* one being equal to the replacement value.
C1_Witness ==
  /\ rc_pc = "done"
  /\ \E i, j \in DOMAIN rc_rng :
       /\ pred(rc_pred, proj(rc_proj, rc_rng[i])) /\ rc_rng[i] # rc_new
       /\ ~pred(rc_pred, proj(rc_proj, rc_rng[j])) /\ rc_rng[j] = rc_new
       /\ rc_out[i] = rc_new /\ rc_out[j] = rc_rng[j]

\* How often source position i occurs in a history.
RCTimes(h, i) == Cardinality({k \in DOMAIN h : h[k] = i})

\* The parts of C10 that do not count reads: the destination cursor has
\* advanced exactly as far as the source cursor, the source positions are
\* visited in order, one per iteration, with the predicate applied to each
\* exactly once, and the returned pair is (end of source, initial
\* destination + length(source)).
RCLockstep ==
  /\ rc_pc \in {"loop", "done"} =>
       /\ rc_result - 1 = rc_first - 1
       /\ rc_calls = [i \in 1..(rc_first - 1) |-> i]
       /\ Len(rc_out) = rc_first - 1
  /\ rc_pc = "done" =>
       /\ rc_ret.in = Len(rc_rng) + 1
       /\ rc_ret.out = 1 + Len(rc_rng)

\* C10 as stated: lockstep, the return value, and each source element read
\* (dereferenced) in order exactly once.
C10_AsStated ==
  /\ RCLockstep
  /\ rc_pc \in {"loop", "done"} => rc_reads = [i \in 1..(rc_first - 1) |-> i]

\* C10 (amended): lockstep and the return value as stated; each source
\* element is visited in order in exactly one iteration, which dereferences
\* it once when it is replaced and twice (once for the predicate, once for
\* the copy) when it is copied.
C10_Lockstep ==
  /\ RCLockstep
  /\ rc_pc \in {"loop", "done"} =>
       /\ \A k \in DOMAIN rc_reads : rc_reads[k] \in 1..(rc_first - 1)
       /\ \A k, l \in DOMAIN rc_reads : k < l => rc_reads[k] <= rc_reads[l]
       /\ \A i \in 1..(rc_first - 1) :
            RCTimes(rc_reads, i) =
              IF pred(rc_pred, proj(rc_proj, rc_rng[i])) THEN 1 ELSE 2

\* In the middle of the loop, after a replaced and a copied element.
C10_Witness ==
  /\ rc_pc = "loop"
  /\ rc_first = 3 /\ rc_first # rc_last /\ rc_result = 3
  /\ pred(rc_pred, proj(rc_proj, rc_rng[1]))
  /\ ~pred(rc_pred, proj(rc_proj, rc_rng[2]))
  /\ rc_reads = <<1, 2, 2>>

(***************************************************************************)
(* Claims about set_union (checked under SpecSU)                           *)
(***************************************************************************)

\* How many elements of seq have key k.
SUCount(seq, p, k) == Cardinality({i \in DOMAIN seq : proj(p, seq[i]) = k})

SUMax(a, b) == IF a > b THEN a ELSE b

SUKeysOf(seq, p) == {proj(p, seq[i]) : i \in DOMAIN seq}

\* C2: for sources sorted under the comparator, the output is sorted and is
\* the multiset union: each value (compared by its key, which under the
\* identity projection is the value itself) occurs max(count in source 1,
\* count in source 2) times; A=[1,3,3,5], B=[2,3,4] gives [1,2,3,3,4,5].
\* Keys of the output are defined when both sources are projected by the
\* same function.
C2_SetUnion ==
  su_pc = "done" =>
    /\ \A i \in DOMAIN su_out : su_out[i] # Unwritten
    /\ su_proj1 = su_proj2 =>
         /\ Sorted(su_out, su_comp, su_proj1)
         /\ \A k \in SUKeysOf(su_rng1, su_proj1) \cup SUKeysOf(su_rng2, su_proj1)
                       \cup SUKeysOf(su_out, su_proj1) :
              SUCount(su_out, su_proj1, k) =
                SUMax(SUCount(su_rng1, su_proj1, k), SUCount(su_rng2, su_proj1, k))
    /\ (su_rng1 = <<1, 3, 3, 5>> /\ su_rng2 = <<2, 3, 4>>
          /\ su_comp = "less" /\ su_proj1 = "identity" /\ su_proj2 = "identity")
         => su_out = <<1, 2, 3, 3, 4, 5>>

\* The documented example has run to its end.
C2_Witness ==
  /\ su_pc = "done"
  /\ su_rng1 = <<1, 3, 3, 5>> /\ su_rng2 = <<2, 3, 4>>
  /\ su_out = <<1, 2, 3, 3, 4, 5>>

\* C3: on every exit path the returned triple is (end of source 1, end of
\* source 2, initial destination + number of emitted elements), the latter
\* one past the last element written; with source 1 empty, in1 is source
\* 1's begin cursor and the output is source 2 verbatim.
C3_Return ==
  su_pc = "done" =>
    /\ su_ret.in1 = su_last1 /\ su_last1 = Len(su_rng1) + 1
    /\ su_ret.in2 = su_last2 /\ su_last2 = Len(su_rng2) + 1
    /\ su_ret.out = 1 + su_emitted
    /\ su_ret.out = Len(su_out) + 1
    /\ su_rng1 = <<>> => (su_ret.in1 = 1 /\ su_out = su_rng2)

\* The documented empty-side example has returned.
C3_Witness ==
  /\ su_pc = "done"
  /\ su_rng1 = <<>> /\ su_rng2 = <<1, 2, 3>>
  /\ su_out = <<1, 2, 3>> /\ su_ret = [in1 |-> 1, in2 |-> 4, out |-> 4]

\* One merge iteration seen from the state before and after it: one element
\* is stored at the old destination position, earlier ones stay, and the
\* cursors move as the comparison of the two current keys prescribes.
C11_Iteration ==
  (su_pc = "loop" /\ su_first1 # su_last1 /\ su_first2 # su_last2) =>
    LET e1 == su_rng1[su_first1]
        e2 == su_rng2[su_first2]
        k1 == proj(su_proj1, e1)
        k2 == proj(su_proj2, e2)
        last == su_log'[Len(su_log')]
    IN /\ su_result' = su_result + 1
       /\ Len(su_out') = su_result
       /\ \A j \in DOMAIN su_out : su_out'[j] = su_out[j]
       /\ Len(su_log') = Len(su_log) + 1
       /\ su_first1' > su_first1 \/ su_first2' > su_first2
       /\ IF comp(su_comp, k1, k2)
          THEN /\ su_out'[su_result] = e1 /\ last.from = 1
               /\ su_first1' = su_first1 + 1
               /\ su_first2' = su_first2
          ELSE /\ su_out'[su_result] = e2 /\ last.from = 2
               /\ su_first2' = su_first2 + 1
               /\ su_first1' = (IF ~comp(su_comp, k2, k1) THEN su_first1 + 1
                                ELSE su_first1)

\* The loop has run one iteration per element it emitted, no more than the
\* elements it consumed, so at most n1 + n2; an iteration that consumed an
\* equivalent pair stored one element for the two.
C11_Progress ==
  su_pc \in {"loop", "done"} =>
    /\ Len(su_log) = su_result - 1
    /\ Len(su_log) <= (su_first1 - 1) + (su_first2 - 1)
    /\ Len(su_log) <= Len(su_rng1) + Len(su_rng2)
    /\ \A k \in DOMAIN su_log :
         (su_log[k].adv1 /\ su_log[k].adv2) =>
           /\ su_out[k] = su_log[k].e2
           /\ ~comp(su_comp, proj(su_proj1, su_log[k].e1), proj(su_proj2, su_log[k].e2))
           /\ ~comp(su_comp, proj(su_proj2, su_log[k].e2), proj(su_proj1, su_log[k].e1))

\* C11: while both sources are non-exhausted, every iteration of the
\* set_union loop emits exactly one element and advances at least one
\* source: source 1's element and source 1 only when comp(proj1(e1),
\* proj2(e2)); otherwise source 2's element and source 2, and source 1 too
\* iff neither element precedes the other; so the loop runs at most n1 + n2
\* iterations and an equivalent pair is emitted once.
C11_MergeStep == [][C11_Iteration]_vars /\ []C11_Progress

\* The call has returned after iterations of all three kinds: source 1's
\* element emitted, source 2's element emitted alone, and an equivalent pair
\* of different elements emitted once from source 2.
C11_Witness ==
  /\ su_pc = "done"
  /\ \E i, j, k \in DOMAIN su_log :
       /\ su_log[i].from = 1
       /\ su_log[j].from = 2 /\ ~su_log[j].adv1
       /\ su_log[k].adv1 /\ su_log[k].adv2 /\ su_log[k].e1 # su_log[k].e2
       /\ su_out[k] = su_log[k].e2

(***************************************************************************)
(* Claims about the range-access customization points (under SpecRA)       *)
(***************************************************************************)

\* C4 as stated: for begin (and likewise end), a member that type-checks
\* is selected over a free function that type-checks too; the free
\* function is chosen only when no member type-checks, and the array
\* built-in only when neither does.
C4_AsStated ==
  /\ ra_op = "begin" =>
       /\ (ra_R.mbegin /\ ra_R.fbegin) => ra_res = "member"
       /\ ra_res = "adl" => ~ra_R.mbegin
       /\ ra_res = "array" => (~ra_R.mbegin /\ ~ra_R.fbegin)
  /\ ra_op = "end" =>
       /\ (ra_R.mend /\ ra_R.fend /\ ra_R.endS) => ra_res = "member"
       /\ ra_res = "adl" => ~ra_R.mend
       /\ ra_res = "array" => (~ra_R.mend /\ ~ra_R.fend)

\* C4 (amended): for begin (and likewise end) on a range that is not a
\* fixed array, a discoverable free function that type-checks is selected
\* over a member, also when both exist and differ; the member is chosen
\* only when no free function type-checks; for a fixed array the built-in
\* is selected whether or not a free function exists.  (The selected end
\* must also be a Sentinel for begin's result, else the build fails.)
C4_Precedence ==
  /\ ra_op = "begin" =>
       /\ ra_R.kind = "array" => ra_res = "array"
       /\ (ra_R.kind # "array" /\ ra_R.fbegin) => ra_res = "adl"
       /\ ra_res = "member" => (ra_R.mbegin /\ ~ra_R.fbegin)
       /\ ra_res = "none" <=>
            (ra_R.kind # "array" /\ ~ra_R.mbegin /\ ~ra_R.fbegin)
  /\ ra_op = "end" =>
       /\ ra_R.kind = "array" => ra_res = "array"
       /\ (ra_R.kind # "array" /\ ra_R.fend) => ra_res \in {"adl", "error"}
       /\ ra_res = "member" => (ra_R.mend /\ ~ra_R.fend)
       /\ ra_res = "error" => ~ra_R.endS
       /\ ra_res = "none" <=>
            (ra_R.kind # "array" /\ ~ra_R.mend /\ ~ra_R.fend)

\* begin was called on a class that has both a member and a free begin.
C4_Witness ==
  /\ ra_op = "begin" /\ ra_R.kind = "class"
  /\ ra_R.mbegin /\ ra_R.fbegin /\ ra_res = "adl"

\* C5 as stated: for a bounded range that supports reversal and also has a
\* member rbegin/rend, the synthesized reverse cursor is returned; the
\* member is used only when synthesis is not applicable.
C5_AsStated ==
  /\ ra_op = "rbegin" =>
       /\ (RASynth(ra_R) /\ ra_R.mrbegin) => ra_res = "synth"
       /\ ra_res = "member" => ~RASynth(ra_R)
  /\ ra_op = "rend" =>
       /\ (RASynth(ra_R) /\ ra_R.mrend /\ ra_R.mrendS) => ra_res = "synth"
       /\ ra_res = "member" => ~RASynth(ra_R)

\* C5 (amended): for a bounded range that supports reversal and also has a
\* member rbegin/rend, the member's result is returned (a member rend must
\* be a Sentinel for rbegin's result, else the build fails); the reverse
\* cursor synthesized from end/begin is used only when there is no member
\* rbegin/rend.
C5_ReversePrecedence ==
  /\ ra_op = "rbegin" =>
       /\ ra_R.mrbegin => ra_res = "member"
       /\ ra_res = "synth" <=> (RASynth(ra_R) /\ ~ra_R.mrbegin)
       /\ ra_res = "none" <=> (~RASynth(ra_R) /\ ~ra_R.mrbegin)
  /\ ra_op = "rend" =>
       /\ ra_R.mrend => ra_res = (IF ra_R.mrendS THEN "member" ELSE "error")
       /\ ra_res = "synth" <=> (RASynth(ra_R) /\ ~ra_R.mrend)
       /\ ra_res = "none" <=> (~RASynth(ra_R) /\ ~ra_R.mrend)

\* rbegin was called on a bounded, reversible class with a member rbegin.
C5_Witness ==
  /\ ra_op = "rbegin" /\ ra_R.kind = "class"
  /\ RASynth(ra_R) /\ ra_R.mrbegin /\ ra_res = "member"

\* C6 as stated: without a member size and with end - begin well-defined,
\* size is end - begin; without a member empty, for a range that is neither
\* array nor list, empty is begin == end; a member, when present, is
\* preferred to these.
C6_AsStated ==
  /\ ra_op = "size" =>
       /\ (ra_R.kind = "class" /\ ~ra_R.msize /\ ~ra_R.fsize /\ ra_R.diff)
            => ra_res = "difference"
       /\ (ra_R.msize /\ ~ra_R.fsize) => ra_res = "member"
  /\ ra_op = "empty" =>
       /\ (ra_R.kind = "class" /\ ~ra_R.mempty /\ begin_fn(ra_R) # "none"
             /\ end_fn(ra_R) \notin {"none", "error"})
            => ra_res = "begin==end"
       /\ (ra_R.kind = "class" /\ ra_R.mempty) => ra_res = "member"

\* C6 (amended): size resolves to the length N for a fixed array, else to
\* a free size found through the range's type, else to the member size();
\* there is no end - begin alternative: a range with none of these is
\* rejected at build time even when end - begin is well-defined.  empty
\* resolves to N == 0 for a fixed array, size() == 0 for a literal list,
\* else to the boolean-convertible member empty(); there is no begin == end
\* alternative: a range with none of these is rejected.
C6_SizeEmpty ==
  /\ ra_op = "size" =>
       /\ ra_res \in {"array", "adl", "member", "none"}
       /\ ra_R.kind = "array" => ra_res = "array"
       /\ (ra_R.kind # "array" /\ ra_R.msize /\ ~ra_R.fsize) => ra_res = "member"
       /\ (ra_R.kind # "array" /\ ra_R.fsize) => ra_res = "adl"
       /\ (ra_R.kind # "array" /\ ~ra_R.msize /\ ~ra_R.fsize) => ra_res = "none"
  /\ ra_op = "empty" =>
       /\ ra_res \in {"array", "list", "member", "none"}
       /\ ra_R.kind = "array" => ra_res = "array"
       /\ ra_R.kind = "list" => ra_res = "list"
       /\ (ra_R.kind = "class" /\ ra_R.mempty) => ra_res = "member"
       /\ (ra_R.kind = "class" /\ ~ra_R.mempty) => ra_res = "none"

\* size was called on a class with no size of its own whose end - begin is
\* well-defined.
C6_Witness ==
  /\ ra_op = "size" /\ ra_R.kind = "class"
  /\ ~ra_R.msize /\ ~ra_R.fsize /\ ra_R.diff /\ ra_res = "none"

(***************************************************************************)
(* Claims about temporary_buffer and temporary_vector (under SpecTV)       *)
(***************************************************************************)

\* The vector has been constructed and every emplace_back/push_back so far
\* was called with size() < capacity().
TVConstructed == tv_pc \in {"vector", "destroyed", "released"}

\* C7: in every state from the vector's construction on, whatever
\* emplace_back, push_back and clear calls were made, begin <= end <=
\* capacity bound, 0 <= size() <= capacity(), and begin and capacity() are
\* those of the construction: the buffer's data() and size().
C7_VectorInvariant ==
  TVConstructed =>
    /\ tv_begin <= tv_end /\ tv_end <= tv_alloc
    /\ 0 <= size /\ size <= capacity
    /\ tv_begin = tb_data
    /\ capacity = tb_size

\* A vector of capacity two or more, filled to capacity again after a clear.
C7_Witness ==
  /\ tv_pc = "vector" /\ tv_last = "push_back"
  /\ capacity >= 2 /\ size = capacity
  /\ \E x \in DOMAIN tv_dtor : tv_dtor[x] >= 1

TBOverAlignedBuilt == OverAligned(tb_T) /\ tb_alloc # 0

\* C9: an over-aligned buffer constructed for n >= 0 elements reports
\* size() <= n; when size() > 0, data() is non-null, aligned to alignof(T),
\* and its size() elements lie inside the raw allocation; when no aligned
\* element fits (n == 0, or std::align fails), size() == 0, and then data()
\* is null.
C9_OverAlignedBuffer ==
  TBOverAlignedBuilt =>
    /\ 0 <= tb_size /\ tb_size <= tb_n
    /\ tb_size > 0 =>
         /\ tb_data # 0
         /\ tb_data % tb_T.align = 0
         /\ tb_alloc <= tb_data
         /\ tb_data + tb_size * tb_T.size <= tb_alloc + RawBytes(tb_T, tb_n)
    /\ (\/ tb_n = 0
        \/ std_align(tb_T.align, tb_T.size, tb_alloc, tb_n).p = 0
        \/ std_align(tb_T.align, tb_T.size, tb_alloc, RawBytes(tb_T, tb_n)).p = 0)
         => tb_size = 0
    /\ tb_size = 0 => tb_data = 0

\* An over-aligned buffer whose allocation was not aligned and that still
\* holds an element.
C9_Witness ==
  /\ TBOverAlignedBuilt
  /\ tb_alloc % tb_T.align # 0
  /\ tb_size >= 1 /\ tb_data > tb_alloc

\* The step is a call of emplace_back or push_back made at
\* size() == capacity().
C12_FullPush ==
  /\ tv_pc = "vector" /\ tv_ops' = tv_ops + 1
  /\ tv_last' \in {"emplace_back", "push_back"}
  /\ size = capacity

\* The step is a call of operator[](i) with i < 0 or i >= size().
C12_BadIndex ==
  /\ tv_pc = "vector" /\ tv_ops' = tv_ops + 1
  /\ tv_last' = "operator[]"
  /\ (tv_idx' < 0 \/ tv_idx' >= size)

\* The call tripped the assertion: the program stopped there with no
\* element constructed, no reference returned, and begin_, end_ and alloc_
\* as they were.
C12_Tripped ==
  /\ tv_pc' = "aborted"
  /\ tv_ctor' = tv_ctor
  /\ tv_last' = "operator[]" => tv_ref' = 0
  /\ tv_begin' = tv_begin /\ tv_end' = tv_end /\ tv_alloc' = tv_alloc

\* C12 as stated: emplace_back/push_back called when size() == capacity()
\* trips the assertion before any element is constructed or end is
\* advanced, and operator[](i) trips it for every i < 0 or i >= size(); the
\* vector's begin/end/capacity are unchanged by the rejected call.
C12_AsStated ==
  [][(C12_FullPush \/ C12_BadIndex) => C12_Tripped]_vars

\* C12 (amended): in a build where STL2_EXPECT asserts, a call of
\* emplace_back/push_back at size() == capacity() (a default-constructed or
\* zero-capacity vector included) and a call of operator[](i) with i < 0 or
\* i >= size() trip the assertion before anything is constructed, returned
\* or advanced, leaving begin/end/capacity unchanged, and no other call of
\* these operations trips it; in a build where STL2_EXPECT only assumes,
\* the same calls are undefined behaviour and no assertion is tripped.
C12_PreconditionChecks ==
  [][/\ ((C12_FullPush \/ C12_BadIndex) /\ tv_build = "assert") => C12_Tripped
     /\ ((C12_FullPush \/ C12_BadIndex) /\ tv_build = "assume")
          => tv_pc' = "undefined"
     /\ (tv_pc = "vector" /\ tv_pc' \in {"aborted", "undefined"})
          => (C12_FullPush \/ C12_BadIndex)]_vars

\* An asserting build has stopped at a rejected call on a vector that holds
\* elements: a push at full capacity, or an index equal to size().
C12_Witness ==
  /\ tv_build = "assert" /\ tv_pc = "aborted"
  /\ size >= 1
  /\ \/ tv_last \in {"emplace_back", "push_back"} /\ size = capacity
     \/ tv_last = "operator[]" /\ tv_idx = size /\ tv_ref = 0

====
